---- MODULE Spec2Model ----
(***************************************************************************)
(* RediGo: an in-memory key-value store (internal/store), the primary's    *)
(* command handlers with their append-only log (cmd/redigo) and the        *)
(* read-only replica with its periodic snapshot sync (cmd/redigo-replica). *)
(***************************************************************************)
EXTENDS Integers, Sequences, FiniteSets, TLC

VARIABLES
    s,          \* the primary's Store: data, maxKeys, evictions, reads, writes
    now,        \* the wall clock, time.Now().Unix()
    last,       \* the call that was made last, with its arguments and results
    aof,        \* the lines of ./redigo.aof, oldest first
    rs,         \* the replica's served Store
    sync,       \* the replica's sync goroutine: its position and its locals
    tasks,      \* the primary's goroutines inside a method of the Store s
    main        \* the primary's main goroutine: its position from start to accept

vars == <<s, now, last, aof, rs, sync, tasks, main>>

(***************************************************************************)
(* Bounds of the model.                                                    *)
(***************************************************************************)
MaxTime == 3
MaxWrites == 2
MaxCapWrites == 3
MaxReads == 1
IntBits == 4
MaxLog == 3
MaxCycles == 2

Keys == {"a", "b"}
CapKeys == {"a", "b", "c"}
Values == {"1", "2"}

(***************************************************************************)
(* int64 arithmetic, scaled down to IntBits bits: Go's + and - wrap.       *)
(***************************************************************************)
RECURSIVE Pow2(_)
Pow2(n) == IF n = 0 THEN 1 ELSE 2 * Pow2(n - 1)

MaxInt64 == Pow2(IntBits - 1) - 1

Wrap(x) == ((x + Pow2(IntBits - 1)) % Pow2(IntBits)) - Pow2(IntBits - 1)

Add64(x, y) == Wrap(x + y)

Sub64(x, y) == Wrap(x - y)

(***************************************************************************)
(* internal/store: Entry, Store and the Store's methods.  A method is an   *)
(* operator from the Store before the call (and the values its calls of    *)
(* time.Now().Unix() return) to the Store after it and the results.  The   *)
(* map is a function whose domain is the set of keys in the map.           *)
(***************************************************************************)
Entry(value, expiresAt, lastAccess) ==
    [Value |-> value, ExpiresAt |-> expiresAt, LastAccess |-> lastAccess]

EmptyMap == [k \in {} |-> Entry("", 0, 0)]

Put(d, key, e) == [k \in DOMAIN d \cup {key} |-> IF k = key THEN e ELSE d[k]]

Remove(d, ks) == [k \in DOMAIN d \ ks |-> d[k]]

New == [data |-> EmptyMap, maxKeys |-> 0, evictions |-> 0, reads |-> 0, writes |-> 0]

SetMaxKeys(st, n) == [st EXCEPT !.maxKeys = n]

Stats(st) ==
    [Keys |-> Cardinality(DOMAIN st.data), MaxKeys |-> st.maxKeys,
     Evictions |-> st.evictions, Reads |-> st.reads, Writes |-> st.writes]

\* The keys the scan of ensureCapacity can end on: the map's iteration order is
\* unspecified and a later key replaces the choice only when strictly older.
LruKeys(d) == {k \in DOMAIN d : \A j \in DOMAIN d : d[k].LastAccess <= d[j].LastAccess}

\* ensureCapacity as it would be if it evicted the first key of the iteration.
ensureCapacityAnyKey(st) ==
    IF st.maxKeys <= 0 THEN {st}
    ELSE IF Cardinality(DOMAIN st.data) < st.maxKeys THEN {st}
    ELSE IF DOMAIN st.data = {} THEN {st}
    ELSE {[st EXCEPT !.data = Remove(st.data, {k}), !.evictions = @ + 1] :
            k \in DOMAIN st.data}

\* The Stores ensureCapacity can leave (one per key the scan can end on).
ensureCapacity(st) ==
    IF st.maxKeys <= 0 THEN {st}
    ELSE IF Cardinality(DOMAIN st.data) < st.maxKeys THEN {st}
    ELSE IF DOMAIN st.data = {} THEN {st}
    ELSE {[st EXCEPT !.data = Remove(st.data, {k}), !.evictions = @ + 1] :
            k \in LruKeys(st.data)}

\* Set as it would be if it called ensureCapacity for every key.
SetAlwaysEnsuring(st, key, value, t) ==
    {[c EXCEPT !.data = Put(c.data, key, Entry(value, 0, t)), !.writes = @ + 1] :
        c \in ensureCapacity(st)}

Set(st, key, value, t) ==
    {[c EXCEPT !.data = Put(c.data, key, Entry(value, 0, t)), !.writes = @ + 1] :
        c \in (IF key \in DOMAIN st.data THEN {st} ELSE ensureCapacity(st))}

\* t1 is the clock read into now, t2 the one read for the expiry.
Setwithttl(st, key, value, ttlSeconds, t1, t2) ==
    LET exp == IF ttlSeconds > 0 THEN Add64(t2, ttlSeconds) ELSE 0
    IN  {[c EXCEPT !.data = Put(c.data, key, Entry(value, exp, t1)), !.writes = @ + 1] :
            c \in (IF key \in DOMAIN st.data THEN {st} ELSE ensureCapacity(st))}

\* Get as it would be if the read path removed an expired entry.
GetRemovingExpired(st, key, t1, t2) ==
    IF key \notin DOMAIN st.data
    THEN [st |-> [st EXCEPT !.reads = @ + 1], value |-> "", ok |-> FALSE]
    ELSE LET e == st.data[key]
         IN  IF e.ExpiresAt # 0 /\ e.ExpiresAt < t1
             THEN [st |-> [st EXCEPT !.data = Remove(st.data, {key})], value |-> "", ok |-> FALSE]
             ELSE [st |-> [st EXCEPT !.data = Put(st.data, key, [e EXCEPT !.LastAccess = t2]),
                                     !.reads = @ + 1],
                   value |-> e.Value, ok |-> TRUE]

\* t1 is the clock read of the expiry check, t2 the one stored in LastAccess.
Get(st, key, t1, t2) ==
    IF key \notin DOMAIN st.data
    THEN [st |-> [st EXCEPT !.reads = @ + 1], value |-> "", ok |-> FALSE]
    ELSE LET e == st.data[key]
         IN  IF e.ExpiresAt # 0 /\ e.ExpiresAt < t1
             THEN [st |-> st, value |-> "", ok |-> FALSE]
             ELSE [st |-> [st EXCEPT !.data = Put(st.data, key, [e EXCEPT !.LastAccess = t2]),
                                     !.reads = @ + 1],
                   value |-> e.Value, ok |-> TRUE]

\* Del as it would be if a miss were counted as a write.
DelCountingMisses(st, key) ==
    IF key \in DOMAIN st.data
    THEN [st |-> [st EXCEPT !.data = Remove(st.data, {key}), !.writes = @ + 1], ok |-> TRUE]
    ELSE [st |-> [st EXCEPT !.writes = @ + 1], ok |-> FALSE]

Del(st, key) ==
    IF key \in DOMAIN st.data
    THEN [st |-> [st EXCEPT !.data = Remove(st.data, {key}), !.writes = @ + 1], ok |-> TRUE]
    ELSE [st |-> st, ok |-> FALSE]

Expires(st, key, ttlSeconds, t) ==
    IF key \in DOMAIN st.data
    THEN LET exp == IF ttlSeconds <= 0 THEN 0 ELSE Add64(t, ttlSeconds)
         IN  [st |-> [st EXCEPT !.data = Put(st.data, key, [st.data[key] EXCEPT !.ExpiresAt = exp]),
                                !.writes = @ + 1],
              ok |-> TRUE]
    ELSE [st |-> st, ok |-> FALSE]

\* TTL as it would be if a key were expired from the second of its expiry on.
TTLExpiringEarly(st, key, t1, t2) ==
    IF key \notin DOMAIN st.data THEN -2
    ELSE IF st.data[key].ExpiresAt = 0 THEN -1
    ELSE IF t1 >= st.data[key].ExpiresAt THEN -2
    ELSE Sub64(st.data[key].ExpiresAt, t2)

\* t1 is the clock read of the expiry check, t2 the one subtracted.
TTL(st, key, t1, t2) ==
    IF key \notin DOMAIN st.data THEN -2
    ELSE IF st.data[key].ExpiresAt = 0 THEN -1
    ELSE IF t1 > st.data[key].ExpiresAt THEN -2
    ELSE Sub64(st.data[key].ExpiresAt, t2)

\* The keys an entry-by-entry scan reading the clock at t can remove.
ExpiredAt(d, t) == {k \in DOMAIN d : d[k].ExpiresAt # 0 /\ d[k].ExpiresAt < t}

\* CleanupExpired as it would be without s.evictions++.
CleanupExpiredUncounted(st, t1, t2) ==
    {[st |-> [st EXCEPT !.data = Remove(st.data, r)], removed |-> Cardinality(r)] :
        r \in {x \in SUBSET ExpiredAt(st.data, t2) : ExpiredAt(st.data, t1) \subseteq x}}

\* The loop reads the clock once per entry, t1 for the entries it visits first
\* and t2 for the others, in an unspecified order: every entry expired at t1
\* goes, and any of those that expire between t1 and t2.
CleanupExpired(st, t1, t2) ==
    {[st |-> [st EXCEPT !.data = Remove(st.data, r), !.evictions = @ + Cardinality(r)],
      removed |-> Cardinality(r)] :
        r \in {x \in SUBSET ExpiredAt(st.data, t2) : ExpiredAt(st.data, t1) \subseteq x}}

StoreKeys(st) == DOMAIN st.data

(***************************************************************************)
(* The clock.  A call reads time.Now().Unix() once or twice; the second    *)
(* read returns the same second or the next one.                           *)
(***************************************************************************)
Later(t) == {t} \cup {u \in {t + 1} : u <= MaxTime}

TTLArgs == {-1, 0, 1, 2, MaxInt64}

CapTTLs == {0, 1}

CapArgs == {0, 1, 2}

NoCall ==
    [op |-> "none", key |-> "", value |-> "", ttl |-> 0, ok |-> FALSE, n |-> 0, reply |-> <<>>]

Call(op, key, value, ttl, ok, n) ==
    [op |-> op, key |-> key, value |-> value, ttl |-> ttl, ok |-> ok, n |-> n, reply |-> <<>>]

\* The replica's sync goroutine between two cycles, none made yet.  pc is
\* its position; newStore and the lines replaceStoreData has left to apply
\* (cmds) are syncOnce's locals; result is what the last cycle returned.
\* The other fields record the cycle for the claims: how many cycles began,
\* who answered (peer), the primary's map the snapshot was taken of (prim),
\* the second the snapshot was applied to newStore (tb), the served map
\* when the cycle began (start), whether a received line could not be used.
SyncIdle ==
    [pc |-> "idle", alive |-> TRUE, cycles |-> 0, peer |-> "none", newStore |-> New,
     cmds |-> <<>>, result |-> "none", prim |-> EmptyMap, tb |-> 0,
     start |-> EmptyMap, parseErr |-> FALSE]

\* The goroutines that call the Store s concurrently.
Tasks == {1, 2}

\* A goroutine outside the Store's methods.  Inside one, pc is "held" from
\* the lock's acquisition to the method's body and "done" from the body to
\* the deferred unlock; mode is "r" for RLock and "w" for Lock; wrote tells
\* whether the body wrote the map or a counter.  In a command handler, pc is
\* "read" after the handler's Get, "append" after its write of the Store
\* and "replied" after its reply; val and found are what the Get returned,
\* rec is the record for the file (none, or one), seq the Store's write
\* counter after the handler's write and pos the record's line in the file.
IdleTask ==
    [pc |-> "idle", op |-> "none", key |-> "", mode |-> "none", wrote |-> FALSE,
     val |-> "", found |-> FALSE, rec |-> <<>>, seq |-> 0, pos |-> 0]

\* main in its accept loop, the file replayed: pc is main's position, size
\* the number of lines the file had when replayAOF opened it, line the
\* number of lines replayAOF has read, err whether it returned an error,
\* listening whether net.Listen has returned.
Accepting == [pc |-> "accept", size |-> 0, line |-> 0, err |-> FALSE, listening |-> TRUE]

Init ==
    /\ s = New
    /\ now = 1
    /\ last = NoCall
    /\ aof = <<>>
    /\ rs = New
    /\ sync = SyncIdle
    /\ tasks = [i \in Tasks |-> IdleTask]
    /\ main = Accepting

Tick ==
    /\ now < MaxTime
    /\ now' = now + 1
    /\ UNCHANGED <<s, last, aof, rs, sync, tasks, main>>

(***************************************************************************)
(* Calls of the Store's methods on the Store s, one action per method.     *)
(* last.ok of a Set or Setwithttl tells whether the key was new, last.n of *)
(* a Setwithttl the second at which it returned.                           *)
(***************************************************************************)
CallSet(K, W) ==
    \E key \in K, value \in Values :
        /\ s.writes < W
        /\ s' \in Set(s, key, value, now)
        /\ last' = Call("Set", key, value, 0, key \notin DOMAIN s.data, 0)
        /\ UNCHANGED <<now, aof, rs, sync, tasks, main>>

CallSetwithttl(K, T, W) ==
    \E key \in K, value \in Values, ttl \in T, t2 \in Later(now) :
        /\ s.writes < W
        /\ s' \in Setwithttl(s, key, value, ttl, now, t2)
        /\ now' = t2
        /\ last' = Call("Setwithttl", key, value, ttl, key \notin DOMAIN s.data, t2)
        /\ UNCHANGED <<aof, rs, sync, tasks, main>>

CallGet(K) ==
    \E key \in K, t2 \in Later(now) :
        LET r == Get(s, key, now, t2)
        IN  /\ s.reads < MaxReads
            /\ s' = r.st
            /\ now' = t2
            /\ last' = Call("Get", key, r.value, 0, r.ok, 0)
            /\ UNCHANGED <<aof, rs, sync, tasks, main>>

CallDel(K, W) ==
    \E key \in K :
        LET r == Del(s, key)
        IN  /\ s.writes < W
            /\ s' = r.st
            /\ last' = Call("Del", key, "", 0, r.ok, 0)
            /\ UNCHANGED <<now, aof, rs, sync, tasks, main>>

CallExpires(K, T, W) ==
    \E key \in K, ttl \in T :
        LET r == Expires(s, key, ttl, now)
        IN  /\ s.writes < W
            /\ s' = r.st
            /\ last' = Call("Expires", key, "", ttl, r.ok, 0)
            /\ UNCHANGED <<now, aof, rs, sync, tasks, main>>

CallTTL(K) ==
    \E key \in K, t2 \in Later(now) :
        /\ now' = t2
        /\ last' = Call("TTL", key, "", 0, FALSE, TTL(s, key, now, t2))
        /\ UNCHANGED <<s, aof, rs, sync, tasks, main>>

CallCleanupExpired ==
    \E t2 \in Later(now) :
        \E r \in CleanupExpired(s, now, t2) :
            /\ s' = r.st
            /\ now' = t2
            /\ last' = Call("CleanupExpired", "", "", 0, FALSE, r.removed)
            /\ UNCHANGED <<aof, rs, sync, tasks, main>>

CallSetMaxKeys ==
    \E n \in CapArgs :
        /\ s' = SetMaxKeys(s, n)
        /\ last' = Call("SetMaxKeys", "", "", 0, FALSE, n)
        /\ UNCHANGED <<now, aof, rs, sync, tasks, main>>

StoreNext ==
    \/ CallSet(Keys, MaxWrites)
    \/ CallSetwithttl(Keys, TTLArgs, MaxWrites)
    \/ CallGet(Keys)
    \/ CallDel(Keys, MaxWrites)
    \/ CallExpires(Keys, TTLArgs, MaxWrites)
    \/ CallTTL(Keys)
    \/ CallCleanupExpired
    \/ CallSetMaxKeys
    \/ Tick

Spec == Init /\ [][StoreNext]_vars

\* The calls the capacity bound is about, on three keys.
CapNext ==
    \/ CallSet(CapKeys, MaxCapWrites)
    \/ CallSetwithttl(CapKeys, CapTTLs, MaxCapWrites)
    \/ CallDel(CapKeys, MaxCapWrites)
    \/ CallExpires(CapKeys, CapTTLs, MaxCapWrites)
    \/ CallCleanupExpired
    \/ CallSetMaxKeys
    \/ Tick

SpecCap == Init /\ [][CapNext]_vars

(***************************************************************************)
(* Goroutines in the Store's methods.  A method takes s.mu on entry (Lock  *)
(* or RLock), runs its body and unlocks on return.  sync.RWMutex admits a  *)
(* Lock when no goroutine holds the mutex and an RLock when none holds it  *)
(* for writing.                                                            *)
(***************************************************************************)
LockOps == {"Get", "Set", "Setwithttl", "Del", "TTL", "Keys", "Stats", "CleanupExpired"}

\* The lock each method takes.
LockMode(op) == IF op \in {"Get", "TTL", "Keys", "Stats"} THEN "r" ELSE "w"

Inside(i) == tasks[i].pc \in {"held", "done"}

\* The Stores the body of op can leave.
Body(op, key, st, t1, t2) ==
    CASE op = "Get" -> {Get(st, key, t1, t2).st}
      [] op = "Set" -> Set(st, key, "1", t1)
      [] op = "Setwithttl" -> Setwithttl(st, key, "1", 1, t1, t2)
      [] op = "Del" -> {Del(st, key).st}
      [] op = "CleanupExpired" -> {r.st : r \in CleanupExpired(st, t1, t2)}
      [] OTHER -> {st}

\* s.mu.Lock() or s.mu.RLock() returns.
Acquire(i) ==
    /\ tasks[i].pc = "idle"
    /\ \E op \in LockOps, key \in Keys :
            /\ LockMode(op) = "w" => \A j \in Tasks \ {i} : ~Inside(j)
            /\ LockMode(op) = "r" => \A j \in Tasks \ {i} : Inside(j) => tasks[j].mode = "r"
            /\ tasks' = [tasks EXCEPT ![i] = [IdleTask EXCEPT
                                              !.pc = "held", !.op = op,
                                              !.key = IF op \in {"Keys", "Stats", "CleanupExpired"}
                                                      THEN "" ELSE key,
                                              !.mode = LockMode(op)]]
    /\ UNCHANGED <<s, now, last, aof, rs, sync, main>>

\* The body of the method, with the lock held.
RunBody(i) ==
    /\ tasks[i].pc = "held"
    /\ s.writes < MaxWrites
    /\ s.reads <= MaxReads
    /\ \E t2 \in Later(now) :
            /\ s' \in Body(tasks[i].op, tasks[i].key, s, now, t2)
            /\ now' = t2
    /\ tasks' = [tasks EXCEPT ![i].pc = "done", ![i].wrote = (s' # s)]
    /\ last' = Call(tasks[i].op, tasks[i].key, "", 0, FALSE, 0)
    /\ UNCHANGED <<aof, rs, sync, main>>

\* The body of a method that writes while another goroutine is inside a
\* method is a data race: the runtime can stop the process ("fatal error:
\* concurrent map writes"), or, next to another Get, the increment of the
\* read counter can be lost.
RaceBody(i) ==
    /\ tasks[i].pc = "held"
    /\ s.writes < MaxWrites
    /\ s.reads <= MaxReads
    /\ \E j \in Tasks \ {i} : Inside(j)
    /\ \E c \in Body(tasks[i].op, tasks[i].key, s, now, now) :
            /\ c # s
            /\ \/ /\ s' = s
                  /\ tasks' = [j \in Tasks |-> [tasks[j] EXCEPT !.pc = "fatal"]]
               \/ /\ \E j \in Tasks \ {i} : Inside(j) /\ tasks[j].op = "Get"
                  /\ s' = [c EXCEPT !.reads = s.reads]
                  /\ s' # c
                  /\ tasks' = [tasks EXCEPT ![i].pc = "done", ![i].wrote = TRUE]
    /\ last' = Call(tasks[i].op, tasks[i].key, "", 0, FALSE, 0)
    /\ UNCHANGED <<now, aof, rs, sync, main>>

\* The deferred s.mu.Unlock() or s.mu.RUnlock().
Release(i) ==
    /\ tasks[i].pc = "done"
    /\ tasks' = [tasks EXCEPT ![i] = IdleTask]
    /\ UNCHANGED <<s, now, last, aof, rs, sync, main>>

LockNext ==
    \/ \E i \in Tasks : Acquire(i)
    \/ \E i \in Tasks : RunBody(i)
    \/ \E i \in Tasks : RaceBody(i)
    \/ \E i \in Tasks : Release(i)
    \/ Tick

SpecLock == Init /\ [][LockNext]_vars

(***************************************************************************)
(* cmd/redigo: text lines, the append-only file and the command handlers.  *)
(* A line is the sequence of its whitespace-separated fields, which is     *)
(* what strings.Fields makes of it; the model's keys, values and TTL       *)
(* fields hold no whitespace, so a field written is a field read.          *)
(***************************************************************************)
RECURSIVE Join(_)
Join(parts) ==
    IF Len(parts) = 0 THEN ""
    ELSE IF Len(parts) = 1 THEN parts[1]
    ELSE parts[1] \o " " \o Join(Tail(parts))

ToUpper(w) ==
    CASE w = "set" -> "SET"
      [] w = "setex" -> "SETEX"
      [] w = "get" -> "GET"
      [] w = "del" -> "DEL"
      [] w = "expire" -> "EXPIRE"
      [] w = "dumpall" -> "DUMPALL"
      [] OTHER -> w

\* strconv.ParseInt(w, 10, 64): the integer a decimal field denotes, or an error.
ParseInt(w) ==
    IF \E n \in (-MaxInt64 - 1)..MaxInt64 : ToString(n) = w
    THEN [err |-> FALSE, n |-> CHOOSE n \in (-MaxInt64 - 1)..MaxInt64 : ToString(n) = w]
    ELSE [err |-> TRUE, n |-> 0]

FormatInt(n) == ToString(n)

\* appendAOF: one line per call, its parts joined by spaces.
appendAOF(log, parts) == Append(log, parts)

Result(st, log, reply) == [st |-> st, log |-> log, reply |-> reply]

cmdSET(st, log, args, t) ==
    IF Len(args) < 2
    THEN {Result(st, log, << <<"-ERR", "SET", "requires", "key", "and", "value">> >>)}
    ELSE LET key == args[1]
             value == Join(Tail(args))
         IN  {Result(c, appendAOF(log, <<"SET", key, value>>), << <<"+OK">> >>) :
                c \in Set(st, key, value, t)}

cmdSETEX(st, log, args, t1, t2) ==
    IF Len(args) < 3
    THEN {Result(st, log, << <<"-ERR", "SETEX", "requires", "key,", "ttl,", "value">> >>)}
    ELSE LET key == args[1]
             ttlStr == args[2]
             ttl == ParseInt(ttlStr)
             value == Join(Tail(Tail(args)))
         IN  IF ttl.err \/ ttl.n <= 0
             THEN {Result(st, log, << <<"-ERR", "invalid", "ttl", "'" \o ttlStr \o "'">> >>)}
             ELSE {Result(c, appendAOF(log, <<"SETEX", key, ttlStr, value>>), << <<"+OK">> >>) :
                    c \in Setwithttl(st, key, value, ttl.n, t1, t2)}

cmdDEL(st, log, args) ==
    IF Len(args) # 1
    THEN Result(st, log, << <<"-ERR", "DEL", "requires", "key">> >>)
    ELSE LET r == Del(st, args[1])
         IN  IF r.ok
             THEN Result(r.st, appendAOF(log, <<"DEL", args[1]>>), << <<":1">> >>)
             ELSE Result(r.st, log, << <<":0">> >>)

\* No reply is written when the key is not in the map.
cmdEXPIRE(st, log, args, t) ==
    IF Len(args) # 2
    THEN Result(st, log, << <<"there", "should", "be", "key", "and", "ttl">> >>)
    ELSE LET key == args[1]
             ttlStr == args[2]
             ttl == ParseInt(ttlStr)
         IN  IF ttl.err \/ ttl.n <= 0
             THEN Result(st, log, << <<"-ERR", "invalid", "ttl", "'" \o ttlStr \o "'">> >>)
             ELSE LET r == Expires(st, key, ttl.n, t)
                  IN  IF r.ok
                      THEN Result(r.st, appendAOF(log, <<"EXPIRE", key, ttlStr>>), << <<"+OK">> >>)
                      ELSE Result(r.st, log, <<>>)

\* CONFIG MAXKEYS n: the bound is set in the Store; nothing is appended to
\* the file.
cmdCONFIG(st, log, args) ==
    IF Len(args) # 2
    THEN Result(st, log, << <<"-ERR", "CONFIG", "usage:", "CONFIG", "MAXKEYS", "<n>">> >>)
    ELSE IF ToUpper(args[1]) # "MAXKEYS"
    THEN Result(st, log, << <<"-ERR", "CONFIG", "only", "supports", "MAXKEYS", "for", "now">> >>)
    ELSE IF ParseInt(args[2]).err \/ ParseInt(args[2]).n < 0
    THEN Result(st, log, << <<"-ERR", "invalid", "MAXKEYS", "value", "'" \o args[2] \o "'">> >>)
    ELSE Result(SetMaxKeys(st, ParseInt(args[2]).n), log, << <<"+OK">> >>)

\* One line of the file applied by replayAOF; a line it cannot use is skipped.
replayLine(st, parts, t) ==
    LET cmd == ToUpper(parts[1])
        args == Tail(parts)
    IN  CASE cmd = "SET" ->
                IF Len(args) < 2 THEN st
                ELSE CHOOSE c \in Set(st, args[1], Join(Tail(args)), t) : TRUE
          [] cmd = "SETEX" ->
                IF Len(args) < 3 THEN st
                ELSE IF ParseInt(args[2]).err THEN st
                ELSE CHOOSE c \in Setwithttl(st, args[1], Join(Tail(Tail(args))),
                                             ParseInt(args[2]).n, t, t) : TRUE
          [] cmd = "DEL" ->
                IF Len(args) # 1 THEN st ELSE Del(st, args[1]).st
          [] cmd = "EXPIRE" ->
                IF Len(args) # 2 THEN st
                ELSE IF ParseInt(args[2]).err THEN st
                ELSE Expires(st, args[1], ParseInt(args[2]).n, t).st
          [] OTHER -> st

\* replayAOF as it would be if it stopped at a line with an unknown command.
RECURSIVE replayAOFStopping(_, _, _)
replayAOFStopping(st, log, t) ==
    IF Len(log) = 0 THEN st
    ELSE IF Len(Head(log)) = 0 THEN replayAOFStopping(st, Tail(log), t)
    ELSE IF ToUpper(Head(log)[1]) \notin {"SET", "SETEX", "DEL", "EXPIRE"} THEN st
    ELSE replayAOFStopping(replayLine(st, Head(log), t), Tail(log), t)

\* replayAOF into the Store st, at second t: the lines in order, blank ones skipped.
RECURSIVE replayAOF(_, _, _)
replayAOF(st, log, t) ==
    IF Len(log) = 0 THEN st
    ELSE IF Len(Head(log)) = 0 THEN replayAOF(st, Tail(log), t)
    ELSE replayAOF(replayLine(st, Head(log), t), Tail(log), t)

\* replayAOF from os.Open on: open is what os.Open gives ("ok", "notexist"
\* for a file that is not there, "denied" for any other error); err is
\* whether an error is returned.
replayAOFPath(st, open, log, t) ==
    CASE open = "notexist" -> [st |-> st, err |-> FALSE]
      [] open = "denied" -> [st |-> st, err |-> TRUE]
      [] OTHER -> [st |-> replayAOF(st, log, t), err |-> FALSE]

\* The lines a file can hold: records the handlers write, and lines cut
\* short or damaged.
ReplayLines ==
    {<<"SET", "a", "1">>, <<"SET", "b", "2">>, <<"SETEX", "a", "2", "2">>, <<"DEL", "a">>,
     <<"EXPIRE", "b", "2">>,
     <<>>, <<"FOO", "a">>, <<"SET", "a">>, <<"SETEX", "b", "1">>, <<"SETEX", "b", "x", "1">>,
     <<"DEL">>, <<"EXPIRE", "a", "x">>}

Logs == UNION {[1..n -> ReplayLines] : n \in 0..MaxLog}

\* The process starts on a file of any of these lines.
InitReplay ==
    /\ s = New
    /\ now = 1
    /\ last = NoCall
    /\ aof \in Logs
    /\ rs = New
    /\ sync = SyncIdle
    /\ tasks = [i \in Tasks |-> IdleTask]
    /\ main = [Accepting EXCEPT !.pc = "opened", !.listening = FALSE]

\* main: replayAOF(s, "./redigo.aof"), once, before the listener.
Replay ==
    /\ last.op = "none"
    /\ \E open \in {"ok"} \cup (IF aof = <<>> THEN {"notexist", "denied"} ELSE {}) :
            LET r == replayAOFPath(s, open, aof, now)
            IN  /\ s' = r.st
                /\ last' = Call("replayAOF", "", open, 0, ~r.err, now)
    /\ UNCHANGED <<now, aof, rs, sync, tasks, main>>

ReplayNext ==
    \/ Replay
    \/ Tick

SpecReplay == InitReplay /\ [][ReplayNext]_vars

(***************************************************************************)
(* The primary's connection loop.  commands is the registry of handlers;   *)
(* handleConn is one turn of the loop on a line that is not blank: the     *)
(* lookup and the handler's call.  The reply is the lines written, each    *)
(* the sequence of its fields.                                             *)
(***************************************************************************)
commands ==
    {"SET", "SETEX", "GET", "DEL", "KEYS", "PING", "EXISTS", "TTL", "EXPIRE",
     "INCR", "DECR", "CONFIG", "INFO", "HELP", "QUIT"}

handleConn(st, log, parts, t1, t2) ==
    LET cmd == ToUpper(parts[1])
        args == Tail(parts)
    IN  IF cmd \notin commands
        THEN {Result(st, log, << <<"-ERR", "unknown", "command", "'" \o cmd \o "'">> >>)}
        ELSE CASE cmd = "SET" -> cmdSET(st, log, args, t1)
               [] cmd = "SETEX" -> cmdSETEX(st, log, args, t1, t2)
               [] cmd = "DEL" -> {cmdDEL(st, log, args)}
               [] cmd = "EXPIRE" -> {cmdEXPIRE(st, log, args, t1)}
               [] cmd = "CONFIG" -> {cmdCONFIG(st, log, args)}

ValueArgs == {<<"1">>, <<"2">>}

TtlFields == {"0", "1", "2", "x"}

\* The lines clients send to the primary.
ClientLines(K) ==
    {<<"SET", k>> \o v : k \in K, v \in ValueArgs}
        \cup {<<"SET", k>> : k \in K}
        \cup {<<"SETEX", k, f>> \o v : k \in K, f \in TtlFields, v \in ValueArgs}
        \cup {<<"DEL", k>> : k \in K}
        \cup {<<"EXPIRE", k, f>> : k \in K, f \in TtlFields}
        \cup {<<"DUMPALL">>, <<"dumpall">>}

\* One turn of handleConn's loop on one of the lines L.
HandleLines(L) ==
    \E parts \in L, t2 \in Later(now) :
        \E r \in handleConn(s, aof, parts, now, t2) :
            /\ Len(aof) < MaxLog
            /\ s' = r.st
            /\ aof' = r.log
            /\ now' = t2
            /\ last' = [Call(ToUpper(parts[1]), "", "", 0, FALSE, 0) EXCEPT !.reply = r.reply]
            /\ UNCHANGED <<rs, sync, tasks, main>>

HandleConn(K) == HandleLines(ClientLines(K))

\* The primary's background goroutine: s.CleanupExpired() every five seconds.
Sweeper ==
    \E t2 \in Later(now) :
        \E r \in CleanupExpired(s, now, t2) :
            /\ s' = r.st
            /\ now' = t2
            /\ last' = Call("CleanupExpired", "", "", 0, FALSE, r.removed)
            /\ UNCHANGED <<aof, rs, sync, tasks, main>>

AofNext ==
    \/ HandleConn(Keys)
    \/ Sweeper
    \/ Tick

SpecAOF == Init /\ [][AofNext]_vars

(***************************************************************************)
(* The primary's start.  main starts the cleanup goroutine, opens the file *)
(* for appending (creating it), calls replayAOF, then net.Listen, and then *)
(* accepts connections.  replayAOF is taken line by line here, so that the *)
(* Store is there to see between two lines.                                *)
(***************************************************************************)
\* The lines of the file a start finds.
StartLines ==
    {<<"SET", "a", "1">>, <<"SETEX", "b", "1", "2">>, <<"DEL", "a">>, <<>>, <<"SET", "a">>}

StartLogs == UNION {[1..n -> StartLines] : n \in 0..(MaxLog - 1)}

\* main at its first statement.
Starting == [pc |-> "start", size |-> 0, line |-> 0, err |-> FALSE, listening |-> FALSE]

InitStart ==
    /\ s = New
    /\ now = 1
    /\ last = NoCall
    /\ aof \in StartLogs
    /\ rs = New
    /\ sync = SyncIdle
    /\ tasks = [i \in Tasks |-> IdleTask]
    /\ main = Starting

\* os.OpenFile("./redigo.aof", O_CREATE|O_APPEND|O_WRONLY): on an error
\* log.Fatalf ends the process.
OpenFile ==
    /\ main.pc = "start"
    /\ \E ok \in BOOLEAN : main' = [main EXCEPT !.pc = IF ok THEN "opened" ELSE "exit"]
    /\ UNCHANGED <<s, now, last, aof, rs, sync, tasks>>

\* replayAOF's os.Open: the file is there, so an error is returned as it is.
ReplayOpen ==
    /\ main.pc = "opened"
    /\ \E ok \in BOOLEAN :
            main' = [main EXCEPT !.pc = IF ok THEN "replay" ELSE "replayed",
                                 !.size = Len(aof), !.err = ~ok]
    /\ UNCHANGED <<s, now, last, aof, rs, sync, tasks>>

\* One turn of replayAOF's loop: the next line is read and applied.
ReplayStep ==
    /\ main.pc = "replay"
    /\ main.line < main.size
    /\ s' = IF Len(aof[main.line + 1]) = 0 THEN s
            ELSE replayLine(s, aof[main.line + 1], now)
    /\ main' = [main EXCEPT !.line = @ + 1]
    /\ UNCHANGED <<now, last, aof, rs, sync, tasks>>

\* scanner.Scan() returns false, at the end of the file or on a read error;
\* replayAOF returns scanner.Err(), which main logs.
ReplayReturn ==
    /\ main.pc = "replay"
    /\ \E e \in BOOLEAN :
            /\ e \/ main.line = main.size
            /\ main' = [main EXCEPT !.pc = "replayed", !.err = e]
    /\ UNCHANGED <<s, now, last, aof, rs, sync, tasks>>

\* main as it would be if it listened, and accepted in a goroutine, before
\* it called replayAOF.
ListenBeforeReplay ==
    /\ main.pc = "opened"
    /\ ~main.listening
    /\ main' = [main EXCEPT !.listening = TRUE]
    /\ UNCHANGED <<s, now, last, aof, rs, sync, tasks>>

\* net.Listen, after replayAOF has returned: on an error log.Fatalf ends
\* the process.
Listen ==
    /\ main.pc = "replayed"
    /\ ~main.listening
    /\ \E ok \in BOOLEAN :
            main' = IF ok THEN [main EXCEPT !.pc = "accept", !.listening = TRUE]
                    ELSE [main EXCEPT !.pc = "exit"]
    /\ UNCHANGED <<s, now, last, aof, rs, sync, tasks>>

\* The lines the first clients send.
ServeLines == {<<"SET", "a", "2">>, <<"SETEX", "b", "1", "1">>, <<"DEL", "a">>, <<"DUMPALL">>}

\* ln.Accept and go handleConn: a line of a client is handled.
Serve ==
    /\ main.listening
    /\ main.pc # "exit"
    /\ HandleLines(ServeLines)

\* The cleanup goroutine, started before the file is opened.
Cleanup ==
    /\ main.pc # "exit"
    /\ Sweeper

StartNext ==
    \/ OpenFile
    \/ ReplayOpen
    \/ ReplayStep
    \/ ReplayReturn
    \/ Listen
    \/ Serve
    \/ Cleanup
    \/ Tick

SpecStart == InitStart /\ [][StartNext]_vars

(***************************************************************************)
(* Clients at once.  Each connection has its goroutine, and a handler is   *)
(* a sequence of steps: its calls of the Store, each under the Store's     *)
(* lock, then appendAOF under aofMu, then the reply.  Between two steps of *)
(* one handler the other goroutines run.                                   *)
(***************************************************************************)
\* The lines the concurrent clients send.
ConcLines ==
    {<<"SET", k, v>> : k \in Keys, v \in Values}
        \cup {<<"SETEX", k, "2", "1">> : k \in Keys}
        \cup {<<"DEL", k>> : k \in Keys}
        \cup {<<"EXPIRE", k, "1">> : k \in Keys}

\* cmdSET, cmdSETEX, cmdDEL or cmdEXPIRE up to its call of the Store.
Mutate(i) ==
    /\ tasks[i].pc = "idle"
    /\ Len(aof) + Cardinality({j \in Tasks : tasks[j].pc = "append"}) < MaxLog
    /\ \E parts \in ConcLines, t2 \in Later(now) :
            \E r \in handleConn(s, <<>>, parts, now, t2) :
                /\ s' = r.st
                /\ now' = t2
                /\ tasks' = [tasks EXCEPT ![i] = [IdleTask EXCEPT
                                !.pc = IF Len(r.log) > 0 THEN "append" ELSE "replied",
                                !.op = parts[1], !.key = parts[2], !.rec = r.log,
                                !.seq = r.st.writes]]
    /\ UNCHANGED <<last, aof, rs, sync, main>>

\* The handler's appendAOF, and its reply.
AppendRecord(i) ==
    /\ tasks[i].pc = "append"
    /\ aof' = aof \o tasks[i].rec
    /\ tasks' = [tasks EXCEPT ![i].pc = "replied", ![i].pos = Len(aof')]
    /\ UNCHANGED <<s, now, last, rs, sync, main>>

\* handleConn's loop reads the connection's next line.
NextLine(i) ==
    /\ tasks[i].pc = "replied"
    /\ tasks' = [tasks EXCEPT ![i] = IdleTask]
    /\ UNCHANGED <<s, now, last, aof, rs, sync, main>>

ConcNext ==
    \/ \E i \in Tasks : Mutate(i)
    \/ \E i \in Tasks : AppendRecord(i)
    \/ \E i \in Tasks : NextLine(i)
    \/ Tick

SpecConc == Init /\ [][ConcNext]_vars

\* One client alone sets the key a to an integer before the others connect.
FirstClient ==
    /\ last.op = "none"
    /\ s = New
    /\ \A i \in Tasks : tasks[i].pc = "idle"
    /\ \E v \in Values :
            \E r \in handleConn(s, aof, <<"SET", "a", v>>, now, now) :
                /\ s' = r.st
                /\ aof' = r.log
                /\ last' = Call("SET", "a", v, 0, TRUE, 0)
    /\ UNCHANGED <<now, rs, sync, tasks, main>>

\* cmdINCR's num for the value its Get returned: 1 for a key not found,
\* the value plus one for an integer, an error otherwise.
incrNum(val, ok) ==
    IF ~ok THEN [err |-> FALSE, n |-> 1]
    ELSE IF ParseInt(val).err THEN [err |-> TRUE, n |-> 0]
    ELSE [err |-> FALSE, n |-> Add64(ParseInt(val).n, 1)]

\* cmdDECR's num: a key not found counts as 0.
decrNum(val, ok) ==
    IF ~ok THEN [err |-> FALSE, n |-> Sub64(0, 1)]
    ELSE IF ParseInt(val).err THEN [err |-> TRUE, n |-> 0]
    ELSE [err |-> FALSE, n |-> Sub64(ParseInt(val).n, 1)]

\* cmdINCR or cmdDECR up to val, ok := s.Get(key).
IncrGet(i) ==
    /\ tasks[i].pc = "idle"
    /\ \E op \in {"INCR", "DECR"}, key \in Keys, t2 \in Later(now) :
            LET r == Get(s, key, now, t2)
            IN  /\ s' = r.st
                /\ now' = t2
                /\ tasks' = [tasks EXCEPT ![i] = [IdleTask EXCEPT
                                !.pc = "read", !.op = op, !.key = key,
                                !.val = r.value, !.found = r.ok]]
    /\ UNCHANGED <<last, aof, rs, sync, main>>

\* From the Get to s.Set(key, newVal); a value that is no integer is
\* answered with an error and nothing is written.
IncrSet(i) ==
    /\ tasks[i].pc = "read"
    /\ LET num == IF tasks[i].op = "INCR" THEN incrNum(tasks[i].val, tasks[i].found)
                  ELSE decrNum(tasks[i].val, tasks[i].found)
           newVal == FormatInt(num.n)
       IN  IF num.err
           THEN /\ tasks' = [tasks EXCEPT ![i].pc = "replied"]
                /\ UNCHANGED s
           ELSE /\ s' \in Set(s, tasks[i].key, newVal, now)
                /\ tasks' = [tasks EXCEPT ![i].pc = "append",
                                          ![i].rec = << <<"SET", tasks[i].key, newVal>> >>,
                                          ![i].seq = s'.writes]
    /\ UNCHANGED <<now, last, aof, rs, sync, main>>

IncrNext ==
    \/ FirstClient
    \/ \E i \in Tasks : IncrGet(i)
    \/ \E i \in Tasks : IncrSet(i)
    \/ \E i \in Tasks : AppendRecord(i)
    \/ Tick

SpecIncr == Init /\ [][IncrNext]_vars

(***************************************************************************)
(* The primary up to a shutdown: clients, one after the other, that set    *)
(* the bound and write keys, the cleanup goroutine and the clock.  A start *)
(* after it replays the file into a fresh Store.                           *)
(***************************************************************************)
RestartLines ==
    {<<"CONFIG", "MAXKEYS", "1">>, <<"CONFIG", "MAXKEYS", "x">>}
        \cup {<<"SET", k, "1">> : k \in Keys}
        \cup {<<"SETEX", k, "1", "2">> : k \in Keys}
        \cup {<<"DEL", k>> : k \in Keys}

RestartNext ==
    \/ HandleLines(RestartLines)
    \/ Sweeper
    \/ Tick

SpecRestart == Init /\ [][RestartNext]_vars

\* What the map d holds, the seconds of last access left out.
Content(d) == [k \in DOMAIN d |-> <<d[k].Value, d[k].ExpiresAt>>]

\* The key/value pairs a client can read from the map d at second t.
Visible(d, t) ==
    {<<k, d[k].Value>> : k \in {j \in DOMAIN d : Get([New EXCEPT !.data = d], j, t, t).ok}}

(***************************************************************************)
(* The snapshot.  Store.DumpCommands is called by replaceStoreData and is  *)
(* not among the sources; it is modelled from the design: one SET or SETEX *)
(* line per key that is in the map and not expired, a SETEX line carrying  *)
(* the seconds the key has left, in the map's unspecified order.           *)
(***************************************************************************)
Orders(S) ==
    {q \in [1..Cardinality(S) -> S] : \A i, j \in 1..Cardinality(S) : q[i] = q[j] => i = j}

DumpLine(d, k, t) ==
    IF d[k].ExpiresAt = 0
    THEN <<"SET", k, d[k].Value>>
    ELSE <<"SETEX", k, FormatInt(Sub64(d[k].ExpiresAt, t)), d[k].Value>>

DumpCommands(st, t) ==
    LET live == {k \in DOMAIN st.data : st.data[k].ExpiresAt = 0 \/ st.data[k].ExpiresAt > t}
    IN  {[i \in 1..Cardinality(live) |-> DumpLine(st.data, q[i], t)] : q \in Orders(live)}

Sentinel == <<".">>

\* What a primary that answers DUMPALL as designed sends: the record lines,
\* then the sentinel.
cmdDUMPALL(st, t) == {d \o <<Sentinel>> : d \in DumpCommands(st, t)}

(***************************************************************************)
(* cmd/redigo-replica: syncOnce and the read-only client loop.             *)
(***************************************************************************)
\* The lines handleConn writes when a connection opens.
Banner ==
    << <<"+OK", "RediGo", "Simple", "Text", "Server">>,
       <<"Supports", "simple", "text", "commands.">>,
       <<"Type", "HELP", "for", "commands.">> >>

\* What a client of handleConn reads as lines: the prompt "> " is written
\* before each read with no line end, so it leads the reply's first line.
Prompted(reply) ==
    IF Len(reply) = 0 THEN <<>> ELSE << <<">">> \o Head(reply) >> \o Tail(reply)

\* The lines syncOnce's read loop drops: a banner or a bare prompt.
Ignored(line) ==
    \/ line[1] = "+OK"
    \/ line[1] = "Supports" /\ Len(line) > 1
    \/ line[1] = "Type" /\ Len(line) > 1 /\ line[2] = "HELP"
    \/ line = <<">">>

\* syncOnce's read loop on the lines the connection delivers: the lines
\* kept, and whether the loop ended at the sentinel or ran out of lines.
RECURSIVE readLines(_, _)
readLines(wire, lines) ==
    IF Len(wire) = 0 THEN [lines |-> lines, end |-> "eof"]
    ELSE IF Head(wire) = Sentinel THEN [lines |-> lines, end |-> "sentinel"]
    ELSE IF Len(Head(wire)) = 0 THEN readLines(Tail(wire), lines)
    ELSE IF Ignored(Head(wire)) THEN readLines(Tail(wire), lines)
    ELSE readLines(Tail(wire), Append(lines, Head(wire)))

\* parseInt64 is fmt.Sscan into an int64: it reads a leading integer and
\* leaves what follows it unread.
parseInt64(w) ==
    IF ~ParseInt(w).err THEN ParseInt(w)
    ELSE IF w = "1x" THEN [err |-> FALSE, n |-> 1]
    ELSE [err |-> TRUE, n |-> 0]

applySnapshotCommand(st, parts, t1, t2) ==
    IF Len(parts) = 0 THEN {st}
    ELSE LET cmd == ToUpper(parts[1])
             args == Tail(parts)
         IN  CASE cmd = "SET" ->
                    IF Len(args) < 2 THEN {st}
                    ELSE Set(st, args[1], Join(Tail(args)), t1)
               [] cmd = "SETEX" ->
                    IF Len(args) < 3 THEN {st}
                    ELSE IF parseInt64(args[2]).err THEN {st}
                    ELSE Setwithttl(st, args[1], Join(Tail(Tail(args))),
                                    parseInt64(args[2]).n, t1, t2)
               [] OTHER -> {st}

\* Whether applySnapshotCommand returns without a call of the Store.
Unusable(parts) ==
    \/ Len(parts) = 0
    \/ ToUpper(parts[1]) \notin {"SET", "SETEX"}
    \/ ToUpper(parts[1]) = "SET" /\ Len(parts) < 3
    \/ ToUpper(parts[1]) = "SETEX" /\ (Len(parts) < 4 \/ parseInt64(parts[3]).err)

\* syncOnce's loop over the lines received, into newStore.
RECURSIVE applyAll(_, _, _)
applyAll(st, lines, t) ==
    IF Len(lines) = 0 THEN st
    ELSE applyAll(CHOOSE c \in applySnapshotCommand(st, Head(lines), t, t) : TRUE,
                  Tail(lines), t)

\* handleReplicaClient as it would be if it applied the line as a record.
handleReplicaClientWriting(st, parts, t1, t2) ==
    [st |-> CHOOSE c \in applySnapshotCommand(st, parts, t1, t2) : TRUE,
     value |-> "", ok |-> FALSE, quit |-> FALSE, panic |-> FALSE, reply |-> << <<"+OK">> >>]

\* One turn of handleReplicaClient's loop on a line that is not blank.
\* GET indexes args[0] without a check of len(args): with no argument the
\* goroutine panics, which ends the process.
handleReplicaClient(st, parts, t1, t2) ==
    LET cmd == ToUpper(parts[1])
        args == Tail(parts)
        same == [st |-> st, value |-> "", ok |-> FALSE, quit |-> FALSE, panic |-> FALSE,
                 reply |-> <<>>]
    IN  CASE cmd = "GET" ->
                IF Len(args) = 0
                THEN [same EXCEPT !.panic = TRUE]
                ELSE LET r == Get(st, args[1], t1, t2)
                     IN  [st |-> r.st, value |-> r.value, ok |-> r.ok, quit |-> FALSE,
                          panic |-> FALSE,
                          reply |-> IF r.ok THEN << <<"\"" \o r.value \o "\"">> >>
                                    ELSE << <<"(nil)">> >>]
          [] cmd = "INFO" ->
                [same EXCEPT !.reply =
                    << <<"#", "Replica">>,
                       <<"keys:" \o ToString(Stats(st).Keys)>>,
                       <<"max_keys:" \o ToString(Stats(st).MaxKeys)>>,
                       <<"evictions:" \o ToString(Stats(st).Evictions)>> >>]
          [] cmd = "QUIT" ->
                [same EXCEPT !.quit = TRUE, !.reply = << <<"+OK", "bye">> >>]
          [] OTHER ->
                [same EXCEPT !.reply =
                    << <<"-ERR", "READONLY", "replica:", "only", "GET/INFO/QUIT",
                         "allowed", "for", "now">> >>]

(***************************************************************************)
(* The replica at work.  The peer at the primary's address is the          *)
(* environment: the dial fails, or the connection delivers lines and then  *)
(* stays open or ends.                                                     *)
(***************************************************************************)
\* The maps the primary can hold at second t when the n-th snapshot is asked
\* for: every key it holds was written with the value n, with no expiry or
\* with two seconds left.
PrimaryMaps(t, n) ==
    UNION {[K -> {Entry(ToString(n), x, t) : x \in {0, t + 2}}] : K \in SUBSET Keys}

\* A record line whose TTL field is no integer, in place of the first line.
Damaged(d) == << <<"SETEX", d[1][2], "x", d[1][Len(d[1])]>> >> \o Tail(d)

\* What the connection delivers.  wire: the lines; eof: whether the
\* connection ends after them (a read error) or stays open and silent;
\* prim: the primary's map.  The peers:
\*   "primary"  handleConn with DUMPALL among its commands, answered as designed;
\*   "unknown"  handleConn with the commands it has;
\*   "records"  a peer that writes the record lines and the sentinel bare;
\*   "cut"      the same, the connection lost before the sentinel;
\*   "damaged"  the same, one record line damaged.
Connections(t, n) ==
    UNION {
        {[peer |-> "primary", wire |-> Banner \o Prompted(w), eof |-> e, prim |-> P] :
            w \in cmdDUMPALL([New EXCEPT !.data = P], t), e \in BOOLEAN}
        \cup {[peer |-> "unknown", wire |-> Banner \o Prompted(r.reply), eof |-> e, prim |-> P] :
            r \in handleConn([New EXCEPT !.data = P], <<>>, <<"DUMPALL">>, t, t),
            e \in BOOLEAN}
        \cup {[peer |-> "records", wire |-> Banner \o w, eof |-> FALSE, prim |-> P] :
            w \in cmdDUMPALL([New EXCEPT !.data = P], t)}
        \cup {[peer |-> "cut", wire |-> Banner \o d, eof |-> TRUE, prim |-> P] :
            d \in DumpCommands([New EXCEPT !.data = P], t)}
        \cup {[peer |-> "damaged", wire |-> Banner \o Damaged(d) \o <<Sentinel>>,
               eof |-> FALSE, prim |-> P] :
            d \in {x \in DumpCommands([New EXCEPT !.data = P], t) : Len(x) > 0}}
        : P \in PrimaryMaps(t, n)}

\* A cycle begins: the fields of the cycle before it are cleared.
Begin(peer, result, pc) ==
    [SyncIdle EXCEPT !.pc = pc, !.cycles = sync.cycles + 1, !.peer = peer,
                     !.result = result, !.start = rs.data]

CanSync == sync.alive /\ sync.pc = "idle" /\ sync.cycles < MaxCycles

\* net.Dial fails: syncOnce returns the error.
SyncDialError ==
    /\ CanSync
    /\ sync' = Begin("none", "dial primary", "idle")
    /\ last' = Call("syncOnce", "", "dial primary", 0, FALSE, 0)
    /\ UNCHANGED <<s, now, aof, rs, tasks, main>>

\* The connection ends before a sentinel line: ReadString fails and syncOnce
\* returns the error.
SyncReadError ==
    /\ CanSync
    /\ \E c \in Connections(now, sync.cycles + 1) :
            /\ readLines(c.wire, <<>>).end = "eof"
            /\ c.eof
            /\ sync' = Begin(c.peer, "read from primary", "idle")
    /\ last' = Call("syncOnce", "", "read from primary", 0, FALSE, 0)
    /\ UNCHANGED <<s, now, aof, rs, tasks, main>>

\* The connection stays open and no sentinel line comes: ReadString does not
\* return.
SyncBlocked ==
    /\ CanSync
    /\ \E c \in Connections(now, sync.cycles + 1) :
            /\ readLines(c.wire, <<>>).end = "eof"
            /\ ~c.eof
            /\ sync' = Begin(c.peer, "none", "blocked")
    /\ last' = Call("ReadString", "", "", 0, FALSE, 0)
    /\ UNCHANGED <<s, now, aof, rs, tasks, main>>

\* The sentinel is read: the lines are applied to newStore, and
\* replaceStoreData dumps newStore.
SyncReceive ==
    /\ CanSync
    /\ \E c \in Connections(now, sync.cycles + 1), t2 \in Later(now) :
            LET r == readLines(c.wire, <<>>)
                ns == applyAll(New, r.lines, now)
            IN  /\ r.end = "sentinel"
                /\ \E cmds \in DumpCommands(ns, t2) :
                        sync' = [Begin(c.peer, sync.result, "install") EXCEPT
                                    !.newStore = ns, !.cmds = cmds,
                                    !.prim = c.prim, !.tb = now,
                                    !.parseErr = \E i \in 1..Len(r.lines) : Unusable(r.lines[i])]
                /\ now' = t2
    /\ last' = Call("DumpCommands", "", "", 0, FALSE, 0)
    /\ UNCHANGED <<s, aof, rs, tasks, main>>

\* replaceStoreData applies the next line to the served Store.
SyncInstall ==
    /\ sync.alive
    /\ sync.pc = "install"
    /\ Len(sync.cmds) > 0
    /\ \E t2 \in Later(now) :
            /\ rs' \in applySnapshotCommand(rs, Head(sync.cmds), now, t2)
            /\ now' = t2
    /\ sync' = [sync EXCEPT !.cmds = Tail(@)]
    /\ last' = Call("applySnapshotCommand", Head(sync.cmds)[2], "", 0, FALSE, 0)
    /\ UNCHANGED <<s, aof, tasks, main>>

\* replaceStoreData is through: syncOnce returns nil.
SyncReturn ==
    /\ sync.alive
    /\ sync.pc = "install"
    /\ Len(sync.cmds) = 0
    /\ sync' = [sync EXCEPT !.pc = "idle", !.result = "ok"]
    /\ last' = Call("syncOnce", "", "", 0, TRUE, 0)
    /\ UNCHANGED <<s, now, aof, rs, tasks, main>>

\* The lines clients send to the replica.
ReplicaLines ==
    {<<"GET", k>> : k \in Keys} \cup {<<"GET">>, <<"SET", "a", "1">>}

\* Lines of commands the replica does not serve.
RefusedLines ==
    {<<"SET", "a", "2">>, <<"set", "b", "2">>, <<"SETEX", "a", "1", "2">>, <<"DEL", "a">>,
     <<"EXPIRE", "a", "1">>, <<"INCR", "a">>, <<"CONFIG", "MAXKEYS", "1">>, <<"KEYS">>,
     <<"DUMPALL">>, <<"PING">>}

ReadOnlyReply ==
    << <<"-ERR", "READONLY", "replica:", "only", "GET/INFO/QUIT", "allowed", "for", "now">> >>

ReplicaClient ==
    /\ sync.alive
    /\ \E parts \in ReplicaLines, t2 \in Later(now) :
            LET r == handleReplicaClient(rs, parts, now, t2)
            IN  /\ rs.reads < MaxReads
                /\ rs' = r.st
                /\ now' = t2
                /\ sync' = [sync EXCEPT !.alive = ~r.panic]
                /\ last' = [Call(ToUpper(parts[1]), IF Len(parts) > 1 THEN parts[2] ELSE "",
                                  r.value, 0, r.ok, 0) EXCEPT !.reply = r.reply]
    /\ UNCHANGED <<s, aof, tasks, main>>

ReplNext ==
    \/ SyncDialError
    \/ SyncReadError
    \/ SyncBlocked
    \/ SyncReceive
    \/ SyncInstall
    \/ SyncReturn
    \/ ReplicaClient
    \/ Tick

SpecRepl == Init /\ [][ReplNext]_vars

\* The sync goroutine alone.  The loop in main calls syncOnce again five
\* seconds after it returned, and a goroutine that can take a step takes it:
\* a dial returns, a read returns when the connection delivers a line or
\* ends, and replaceStoreData goes from line to line.
SyncTask ==
    \/ SyncDialError
    \/ SyncReadError
    \/ SyncBlocked
    \/ SyncReceive
    \/ SyncInstall
    \/ SyncReturn

SyncNext ==
    \/ SyncDialError
    \/ SyncReadError
    \/ SyncBlocked
    \/ SyncReceive
    \/ SyncInstall
    \/ SyncReturn
    \/ Tick

SpecSync == Init /\ [][SyncNext]_vars /\ WF_vars(SyncTask)

\* The replica's clients alone, on a Store that syncs have filled: any map
\* of the keys with values written at second 1, with no expiry or with
\* expiry at second 2.
ServedMaps ==
    UNION {[K -> {Entry(v, x, 1) : v \in Values, x \in {0, 2}}] : K \in SUBSET Keys}

InitServe ==
    /\ s = New
    /\ now = 1
    /\ last = NoCall
    /\ aof = <<>>
    /\ rs \in {[New EXCEPT !.data = d, !.writes = Cardinality(DOMAIN d)] : d \in ServedMaps}
    /\ sync = SyncIdle
    /\ tasks = [i \in Tasks |-> IdleTask]
    /\ main = Accepting

ServeNext ==
    \/ ReplicaClient
    \/ Tick

SpecServe == InitServe /\ [][ServeNext]_vars

(***************************************************************************)
(* The claims about the Store.                                             *)
(***************************************************************************)

\* C1: with maxKeys > 0, right after a Set or Setwithttl that inserted a key
\* that was not in the map, the map holds at most maxKeys entries.
C1_CapacityAfterInsert ==
    (last.op \in {"Set", "Setwithttl"} /\ last.ok /\ s.maxKeys > 0)
        => Cardinality(DOMAIN s.data) <= s.maxKeys

\* C8: Get misses on an absent key and on a key whose ExpiresAt is non-zero
\* and in the past, and then leaves the map as it is; on any other key it
\* returns the value and stores the clock in LastAccess, and nothing else
\* of the map changes.
C8_GetContract ==
    \A key \in Keys, t2 \in Later(now) :
        LET r == Get(s, key, now, t2)
            present == key \in DOMAIN s.data
            expired == present /\ s.data[key].ExpiresAt # 0 /\ s.data[key].ExpiresAt < now
        IN  /\ (~present \/ expired) => (~r.ok /\ r.value = "" /\ r.st.data = s.data)
            /\ (present /\ ~expired) =>
                    /\ r.ok
                    /\ r.value = s.data[key].Value
                    /\ r.st.data = [s.data EXCEPT ![key] = Entry(s.data[key].Value,
                                                                 s.data[key].ExpiresAt, t2)]

\* A Get has just missed on a key that is still in the map, expired.
C8_Witness ==
    /\ last.op = "Get"
    /\ ~last.ok
    /\ last.key \in DOMAIN s.data
    /\ s.data[last.key].ExpiresAt # 0
    /\ s.data[last.key].ExpiresAt < now

\* C9: TTL returns -2 for a key that is absent or expired, -1 for a key in
\* the map with no expiry, and otherwise the remaining seconds, never negative.
C9_TTLContract ==
    last.op = "TTL" =>
        LET present == last.key \in DOMAIN s.data
        IN  /\ ~present => last.n = -2
            /\ (present /\ s.data[last.key].ExpiresAt = 0) => last.n = -1
            /\ (present /\ s.data[last.key].ExpiresAt # 0) => (last.n = -2 \/ last.n >= 0)

\* C10: right after Setwithttl(k, v, ttl), within the same second or the
\* next, Get(k) returns (v, true), and TTL(k) is ttl - 1 or ttl when ttl > 0
\* and -1 when ttl <= 0.
C10_AfterSetwithttl ==
    (last.op = "Setwithttl" /\ now = last.n) =>
        \A t1 \in Later(now) :
            \A t2 \in {u \in Later(t1) : u <= now + 1} :
                /\ Get(s, last.key, t1, t2).ok
                /\ Get(s, last.key, t1, t2).value = last.value
                /\ last.ttl > 0 => TTL(s, last.key, t1, t2) \in {last.ttl - 1, last.ttl}
                /\ last.ttl <= 0 => TTL(s, last.key, t1, t2) = -1

\* C6: replaying the file into a fresh Store gives a Store with the same
\* readable key/value pairs as the Store the commands were applied to.
C6_LogRoundTrip ==
    Visible(replayAOF(New, aof, now).data, now) = Visible(s.data, now)

(***************************************************************************)
(* The claims about the snapshot and the replica.                          *)
(***************************************************************************)

\* C7: a DUMPALL line sent to the primary is answered with record lines (SET
\* or SETEX) and then the sentinel line ".".
C7_DumpallAnswered ==
    last.op = "DUMPALL" =>
        /\ Len(last.reply) > 0
        /\ last.reply[Len(last.reply)] = Sentinel
        /\ \A i \in 1..(Len(last.reply) - 1) : last.reply[i][1] \in {"SET", "SETEX"}

\* C2: while replaceStoreData installs a snapshot, the pairs a client can
\* read from the replica are those of the Store as the cycle found it or
\* those of the new snapshot, never a mix.
C2_NoMixedInstall ==
    sync.pc = "install" =>
        Visible(rs.data, now) \in {Visible(sync.start, now), Visible(sync.newStore.data, now)}

\* C3: after syncOnce returned nil, every key the replica's GET returns is a
\* key of the snapshot just received.
C3_NoStaleKey ==
    (last.op = "syncOnce" /\ last.ok) =>
        {p[1] : p \in Visible(rs.data, now)} \subseteq DOMAIN sync.newStore.data

\* C4: after syncOnce returned nil on a snapshot the primary sent, the
\* replica's GET returns, for every key of the primary's map that has no
\* expiry or has not reached it, the value the primary held.
C4_Convergence ==
    (last.op = "syncOnce" /\ last.ok /\ sync.peer = "primary") =>
        \A k \in DOMAIN sync.prim :
            (sync.prim[k].ExpiresAt = 0 \/ now <= sync.prim[k].ExpiresAt) =>
                /\ Get(rs, k, now, now).ok
                /\ Get(rs, k, now, now).value = sync.prim[k].Value

\* C5: after a cycle in which the dial or a read failed, or a received line
\* could not be parsed, the replica's Store holds what it held when the
\* cycle began.
C5_FailedSyncChangesNothing ==
    (last.op = "syncOnce" /\ (~last.ok \/ sync.parseErr)) =>
        Content(rs.data) = Content(sync.start)

(***************************************************************************)
(* More claims about the Store.                                            *)
(***************************************************************************)

\* C11: Del of a key that is not in the map returns false and leaves the map
\* and the counters as they are (cmdDEL replies :0); Del of a key in the map
\* returns true and removes it (cmdDEL replies :1), and a second Del of the
\* same key right after returns false.
C11_DelContract ==
    \A key \in CapKeys :
        LET r == Del(s, key)
        IN  /\ key \notin DOMAIN s.data =>
                    /\ ~r.ok
                    /\ r.st = s
                    /\ cmdDEL(s, aof, <<key>>).reply = << <<":0">> >>
            /\ key \in DOMAIN s.data =>
                    /\ r.ok
                    /\ r.st.data = Remove(s.data, {key})
                    /\ ~Del(r.st, key).ok
                    /\ Del(r.st, key).st = r.st
                    /\ cmdDEL(s, aof, <<key>>).reply = << <<":1">> >>

\* A Del has just removed a key and another key is left in the map.
C11_Witness ==
    /\ last.op = "Del"
    /\ last.ok
    /\ last.key \notin DOMAIN s.data
    /\ DOMAIN s.data # {}

\* C12: Expires on a key that is not in the map returns false and leaves the
\* Store as it is; on a key in the map it returns true, keeps the value, and
\* sets the expiry to the clock plus ttlSeconds when ttlSeconds > 0 and to
\* none (TTL is -1) when ttlSeconds <= 0.
C12_ExpiresContract ==
    \A key \in Keys, ttl \in TTLArgs :
        LET r == Expires(s, key, ttl, now)
        IN  /\ key \notin DOMAIN s.data => (~r.ok /\ r.st = s)
            /\ key \in DOMAIN s.data =>
                    /\ r.ok
                    /\ DOMAIN r.st.data = DOMAIN s.data
                    /\ r.st.data[key].Value = s.data[key].Value
                    /\ ttl > 0 => r.st.data[key].ExpiresAt = now + ttl
                    /\ ttl <= 0 => (r.st.data[key].ExpiresAt = 0 /\ TTL(r.st, key, now, now) = -1)

\* C13: CleanupExpired removes every entry whose ExpiresAt is non-zero and
\* before the clock when the scan begins, removes no entry whose ExpiresAt is
\* zero or not before the clock when the scan ends, leaves the entries it
\* keeps as they are, returns the number removed and adds that number to the
\* eviction counter; reads, writes and maxKeys stay.
C13_CleanupContract ==
    \A t2 \in Later(now) :
        \A r \in CleanupExpired(s, now, t2) :
            LET gone == DOMAIN s.data \ DOMAIN r.st.data
            IN  /\ DOMAIN r.st.data \subseteq DOMAIN s.data
                /\ \A k \in DOMAIN s.data :
                        (s.data[k].ExpiresAt # 0 /\ s.data[k].ExpiresAt < now) => k \in gone
                /\ \A k \in gone : s.data[k].ExpiresAt # 0 /\ s.data[k].ExpiresAt < t2
                /\ \A k \in DOMAIN r.st.data : r.st.data[k] = s.data[k]
                /\ r.removed = Cardinality(gone)
                /\ r.st.evictions = s.evictions + Cardinality(gone)
                /\ r.st.reads = s.reads
                /\ r.st.writes = s.writes
                /\ r.st.maxKeys = s.maxKeys

\* A CleanupExpired has just removed an entry and kept another.
C13_Witness ==
    /\ last.op = "CleanupExpired"
    /\ last.n >= 1
    /\ s.evictions >= 1
    /\ DOMAIN s.data # {}

\* C14: every Get adds exactly one to the read counter, on a hit and on a
\* miss (key not in the map, or expired).
C14_GetCountsRead ==
    \A key \in Keys, t2 \in Later(now) :
        Stats(Get(s, key, now, t2).st).Reads = Stats(s).Reads + 1

\* C16: a Set or Setwithttl of a key that is in the map removes no entry,
\* changes no other entry and leaves the eviction counter as it is, whatever
\* maxKeys and the size of the map.
C16_UpdateNeverEvicts ==
    \A key \in DOMAIN s.data :
        \A c \in UNION ({Set(s, key, value, now) : value \in Values}
                        \cup {Setwithttl(s, key, "2", ttl, now, t2) :
                                ttl \in CapTTLs, t2 \in Later(now)}) :
            /\ DOMAIN c.data = DOMAIN s.data
            /\ \A j \in DOMAIN s.data \ {key} : c.data[j] = s.data[j]
            /\ c.evictions = s.evictions

\* A Set or Setwithttl has just rewritten a key of a map that is full.
C16_Witness ==
    /\ last.op \in {"Set", "Setwithttl"}
    /\ ~last.ok
    /\ s.maxKeys > 0
    /\ Cardinality(DOMAIN s.data) >= s.maxKeys

Malformed(parts) ==
    \/ Len(parts) = 0
    \/ /\ Len(parts) > 0
       /\ \/ parts[1] \notin {"SET", "SETEX", "DEL", "EXPIRE"}
          \/ parts[1] = "SET" /\ Len(parts) < 3
          \/ parts[1] = "SETEX" /\ (Len(parts) < 4 \/ ParseInt(parts[3]).err)
          \/ parts[1] = "DEL" /\ Len(parts) # 2
          \/ parts[1] = "EXPIRE" /\ (Len(parts) # 3 \/ ParseInt(parts[3]).err)

WellFormed(parts) == ~Malformed(parts)

\* C17: replayAOF skips a malformed line with no change of the Store and goes
\* on with the lines after it: the Store it leaves is the Store the
\* well-formed lines alone give, and no error is returned; for a file that
\* is not there it returns no error and leaves the Store empty.
C17_ReplayTolerant ==
    last.op = "replayAOF" =>
        /\ last.value = "notexist" => (last.ok /\ s = New)
        /\ last.value = "ok" =>
                /\ last.ok
                /\ s = replayAOF(New, SelectSeq(aof, WellFormed), last.n)

\* A file with a malformed line before a record has been replayed, and the
\* record took effect.
C17_Witness ==
    /\ last.op = "replayAOF"
    /\ \E i, j \in 1..Len(aof) : i < j /\ Malformed(aof[i]) /\ Len(aof[i]) > 0 /\ WellFormed(aof[j])
    /\ DOMAIN s.data # {}

\* C15: no line a client sends to the replica adds, removes or changes a
\* key/value pair or an expiry of the replica's Store, and a line whose
\* command is not GET, INFO or QUIT is answered with the read-only error and
\* leaves the Store as it is.
C15_ReplicaReadOnly ==
    \A parts \in ReplicaLines \cup RefusedLines \cup {<<"INFO">>, <<"QUIT">>, <<"get", "a">>} :
        \A t2 \in Later(now) :
            LET r == handleReplicaClient(rs, parts, now, t2)
            IN  /\ Content(r.st.data) = Content(rs.data)
                /\ ToUpper(parts[1]) \notin {"GET", "INFO", "QUIT"} =>
                        /\ r.reply = ReadOnlyReply
                        /\ r.st = rs
                        /\ ~r.quit

\* A client's SET has just been refused by a replica that holds a key.
C15_Witness ==
    /\ last.op = "SET"
    /\ last.reply = ReadOnlyReply
    /\ DOMAIN rs.data # {}

\* C18: a malformed client line (here a GET with no key, sent to the
\* replica) is answered with an error reply and leaves the process running.
C18_ProtocolErrorNotFatal ==
    (last.op = "GET" /\ last.key = "") => (sync.alive /\ Len(last.reply) > 0)

(***************************************************************************)
(* The claim about the Store's lock.                                       *)
(***************************************************************************)

\* C19: no goroutine writes the map or a counter of the Store while another
\* goroutine is inside a method of the Store.
C19_LockDiscipline ==
    \A i \in Tasks :
        \A j \in Tasks \ {i} :
            (Inside(i) /\ tasks[i].wrote) => ~Inside(j)

(***************************************************************************)
(* The claims about expiry.                                                *)
(***************************************************************************)

\* C23: at any second and for any key in the map, Get misses exactly when
\* TTL returns -2 and exactly when a CleanupExpired at that second removes
\* the key.
C23_OneExpiryPredicate ==
    \A key \in DOMAIN s.data :
        \A t2 \in Later(now) :
            /\ ~Get(s, key, now, t2).ok <=> (TTL(s, key, now, t2) = -2)
            /\ \A r \in CleanupExpired(s, now, now) :
                    ~Get(s, key, now, t2).ok <=> (key \notin DOMAIN r.st.data)

\* TTL has just returned -2 for a key that is in the map, and another key of
\* the map is in the second of its expiry.
C23_Witness ==
    /\ last.op = "TTL"
    /\ last.n = -2
    /\ last.key \in DOMAIN s.data
    /\ \E k \in DOMAIN s.data : s.data[k].ExpiresAt = now

\* C25: for a key in the map whose entry has expired (the second of its
\* expiry has passed), Get goes on missing after a Get, an Expires, a TTL, a
\* Del or a CleanupExpired, and Expires returns false as it does for a key
\* that is not in the map.
C25_ExpiryFinal ==
    \A key \in Keys :
        (key \in DOMAIN s.data /\ s.data[key].ExpiresAt > 0 /\ ~Get(s, key, now, now).ok) =>
            \A t \in Later(now) :
                /\ ~Get(Get(s, key, now, t).st, key, t, t).ok
                /\ ~Get(Del(s, key).st, key, t, t).ok
                /\ \A r \in CleanupExpired(s, now, t) : ~Get(r.st, key, t, t).ok
                /\ \A ttl \in TTLArgs :
                        /\ ~Expires(s, key, ttl, now).ok
                        /\ ~Get(Expires(s, key, ttl, now).st, key, t, t).ok

(***************************************************************************)
(* The claims about the life of the processes.                             *)
(***************************************************************************)

\* C21: every sync cycle that has begun ends, with syncOnce returning nil or
\* an error, and after a cycle another one begins (up to MaxCycles cycles),
\* whatever the peer at the primary's address does.
C21_SyncLiveness ==
    /\ (sync.pc # "idle") ~> (sync.pc = "idle")
    /\ \A n \in 0..(MaxCycles - 1) : (sync.cycles = n) ~> (sync.cycles > n)

(***************************************************************************)
(* The claims about clients at once.                                       *)
(***************************************************************************)

\* C22: when no client is inside a SET, SETEX, DEL or EXPIRE, the file
\* replayed into a fresh Store gives the keys the map holds, each with the
\* value it has in the map; and the records of two commands on one key are
\* in the file in the order in which the commands wrote the Store.
C22_PerKeyFinalState ==
    (\A i \in Tasks : tasks[i].pc \in {"idle", "replied"}) =>
        LET r == replayAOF(New, aof, now)
        IN  /\ DOMAIN r.data = DOMAIN s.data
            /\ \A k \in DOMAIN s.data : r.data[k].Value = s.data[k].Value
            /\ \A i \in Tasks :
                    \A j \in Tasks \ {i} :
                        (/\ tasks[i].pc = "replied" /\ Len(tasks[i].rec) > 0
                         /\ tasks[j].pc = "replied" /\ Len(tasks[j].rec) > 0
                         /\ tasks[i].key = tasks[j].key)
                            => (tasks[i].seq < tasks[j].seq <=> tasks[i].pos < tasks[j].pos)

\* C26: when every client has run one INCR on the same key and all have
\* replied, the key's value is the value it had (0 for a key not in the map)
\* plus the number of clients, and the replies are the integers from that
\* value plus one up to the final value, each once; likewise downwards for
\* DECR.
C26_IncrAtomic ==
    \A k \in Keys :
        \A op \in {"INCR", "DECR"} :
            (\A i \in Tasks : tasks[i].pc = "replied" /\ tasks[i].op = op /\ tasks[i].key = k) =>
                LET base == IF k = "a" /\ last.op = "SET" THEN ParseInt(last.value).n ELSE 0
                    d == IF op = "INCR" THEN 1 ELSE -1
                    n == Cardinality(Tasks)
                IN  /\ k \in DOMAIN s.data
                    /\ s.data[k].Value = FormatInt(base + d * n)
                    /\ \A j \in 1..n :
                            Cardinality({i \in Tasks :
                                tasks[i].rec = << <<"SET", k, FormatInt(base + d * j)>> >>}) = 1

C27_RestartKeepsAbsent ==
    \A k \in Keys :
        ~Get(s, k, now, now).ok => ~Get(replayAOF(New, aof, now), k, now, now).ok

====
